---------------------------- MODULE Spec2Model ----------------------------
(***************************************************************************)
(* Model of playbook/vars_plugins/hashivault_vars.py: the Hashicorp Vault  *)
(* vars plugin.  Python strings that the code splits or compares           *)
(* (entity.name, lookup_part) are sequences of one-character strings;      *)
(* folders, cache keys and store paths are strings built by concatenation. *)
(* A Python dict is a function whose DOMAIN is the dict's key set.         *)
(***************************************************************************)
EXTENDS Integers, Sequences, FiniteSets, TLC

VARIABLES
    store,        \* the vault: path -> secret data (a path outside DOMAIN has no data)
    storeUp,      \* whether v_client.read answers (FALSE: it raises)
    vault_cache,  \* the module-level dict vault_cache
    readCount,    \* per cache key, how many store reads have returned
    firstRead,    \* per cache key, the record that was first put into the cache
    last,         \* outcome of the last completed operation
    thr           \* per thread, the position and locals of a running _read_vault

vars == <<store, storeUp, vault_cache, readCount, firstRead, last, thr>>

---------------------------------------------------------------------------
(* Bounds of the model *)

MaxEntities == 2
MaxLabels == 4
MaxReadCount == 2
MaxThreadCalls == 2

(* Numbers of the program *)

DefaultPort == 22
WinrmPortHttp == 5985
WinrmPortHttps == 5986

---------------------------------------------------------------------------
(* Strings *)

RECURSIVE Str(_)
Str(cs) == IF cs = <<>> THEN "" ELSE cs[1] \o Str(Tail(cs))

RECURSIVE Split(_, _)
Split(s, sep) ==
    IF \A i \in 1..Len(s) : s[i] # sep
    THEN <<s>>
    ELSE LET i == CHOOSE j \in 1..Len(s) :
                      s[j] = sep /\ \A k \in 1..(j - 1) : s[k] # sep
         IN <<SubSeq(s, 1, i - 1)>> \o Split(SubSeq(s, i + 1, Len(s)), sep)

(* Mutant: the parts are left in the order of the name *)
NotReversed(q) == q

Reverse(q) == [i \in 1..Len(q) |-> q[Len(q) + 1 - i]]

DigitSeq == <<"0", "1", "2", "3", "4", "5", "6", "7", "8", "9">>
Digits == {DigitSeq[i] : i \in 1..10}
HexDigits == Digits \cup {"a", "b", "c", "d", "e", "f", "A", "B", "C", "D", "E", "F"}
DigitVal(c) == (CHOOSE i \in 1..10 : DigitSeq[i] = c) - 1

RECURSIVE DecVal(_)
DecVal(ds) == IF ds = <<>> THEN 0
              ELSE DecVal(SubSeq(ds, 1, Len(ds) - 1)) * 10 + DigitVal(ds[Len(ds)])

(* socket.inet_pton(AF_INET, address) succeeds: four decimal fields of one
   to three digits, none above 255, none with a leading zero. *)
Octet(p) ==
    /\ Len(p) \in 1..3
    /\ \A i \in 1..Len(p) : p[i] \in Digits
    /\ (Len(p) > 1 => p[1] # "0")
    /\ DecVal(p) <= 255

_is_valid_ipv4_address(address) ==
    LET parts == Split(address, ".")
    IN Len(parts) = 4 /\ \A i \in 1..4 : Octet(parts[i])

HexGroup(p) == Len(p) \in 1..4 /\ \A i \in 1..Len(p) : p[i] \in HexDigits

(* The 16-bit groups a colon-separated run stands for, or -1 when it is
   malformed; the last field may be a dotted IPv4 address (two groups) when
   tailV4. *)
GroupCount(s, tailV4) ==
    IF s = <<>> THEN 0
    ELSE LET g == Split(s, ":")
             n == Len(g)
         IN IF \A i \in 1..(n - 1) : HexGroup(g[i])
            THEN IF HexGroup(g[n]) THEN n
                 ELSE IF tailV4 /\ _is_valid_ipv4_address(g[n]) THEN n + 1
                 ELSE -1
            ELSE -1

(* socket.inet_pton(AF_INET6, address) succeeds. *)
_is_valid_ipv6_address(address) ==
    LET n == Len(address)
        dc == {i \in 1..(n - 1) : address[i] = ":" /\ address[i + 1] = ":"}
    IN IF dc = {}
       THEN n > 0 /\ GroupCount(address, TRUE) = 8
       ELSE /\ Cardinality(dc) = 1
            /\ LET i == CHOOSE j \in dc : TRUE
                   l == GroupCount(SubSeq(address, 1, i - 1), FALSE)
                   r == GroupCount(SubSeq(address, i + 2, n), TRUE)
               IN l >= 0 /\ r >= 0 /\ l + r <= 7

_is_valid_ip_address(address) ==
    IF _is_valid_ipv4_address(address) THEN TRUE
    ELSE _is_valid_ipv6_address(address)

---------------------------------------------------------------------------
(* Dicts *)

EmptyDict == [k \in {} |-> 0]

Put(d, k, v) == [x \in DOMAIN d \cup {k} |-> IF x = k THEN v ELSE d[x]]

(* Mutant: the earlier layer wins *)
combine_vars_first_wins(a, b) ==
    [k \in DOMAIN a \cup DOMAIN b |-> IF k \in DOMAIN a THEN a[k] ELSE b[k]]

(* ansible.utils.vars.combine_vars(a, b): a copy of a updated with b *)
combine_vars(a, b) ==
    [k \in DOMAIN a \cup DOMAIN b |-> IF k \in DOMAIN b THEN b[k] ELSE a[k]]


---------------------------------------------------------------------------
(* The vault client *)

(* self.v_client.read(path=...): None (here <<>>) for a path without data,
   else the response, whose "data" member is the secret. *)
v_client_read(path) ==
    IF path \in DOMAIN store THEN <<[data |-> store[path]]>> ELSE <<>>

---------------------------------------------------------------------------
(* _read_vault.  A running resolution is p = [cache, lookups, reads]: the
   cache as it stands, the _read_vault calls issued so far (with what each
   returned) and the cache keys read from the store so far. *)

CacheKey(folder, entity_name) == folder \o "/" \o Str(entity_name)

(* Mutant: "if cached_value:", which an empty cached record fails *)
CacheHitTruthy(cache, key) == key \in DOMAIN cache /\ cache[key] # EmptyDict

(* cached_value = vault_cache.get(key); cached_value != None *)
CacheHit(cache, key) == key \in DOMAIN cache

(* data = {}; if result: data = result["data"] *)
ResultData(result) == IF result # <<>> THEN result[1].data ELSE EmptyDict

Looked(p, folder, entity_name, value) ==
    [p EXCEPT !.lookups =
        Append(@, [folder |-> folder, name |-> entity_name, value |-> value])]

(* The(S) is the element of the singleton S; The({e(v) : v \in {d}}) is
   e with v naming the value of d. *)
The(S) == CHOOSE y \in S : TRUE

(* Mutant: the record read is returned and not put into the cache *)
ReadMissNotCached(p, folder, entity_name, key) ==
    IF ~storeUp
    THEN [exc |-> "StoreError", value |-> EmptyDict, p |-> p]
    ELSE The({[exc |-> "none", value |-> data,
               p |-> [cache |-> p.cache,
                      lookups |-> Looked(p, folder, entity_name, data).lookups,
                      reads |-> Append(p.reads, key)]] :
              data \in {ResultData(v_client_read("secret/ansible/" \o key))}})

(* Lines 124-131: the cache missed *)
ReadMiss(p, folder, entity_name, key) ==
    IF ~storeUp
    THEN [exc |-> "StoreError", value |-> EmptyDict, p |-> p]
    ELSE The({[exc |-> "none", value |-> data,
               p |-> [cache |-> Put(p.cache, key, data),
                      lookups |-> Looked(p, folder, entity_name, data).lookups,
                      reads |-> Append(p.reads, key)]] :
              data \in {ResultData(v_client_read("secret/ansible/" \o key))}})

_read_vault(p, folder, entity_name) ==
    The({IF CacheHit(p.cache, key)
         THEN [exc |-> "none", value |-> p.cache[key],
               p |-> Looked(p, folder, entity_name, p.cache[key])]
         ELSE ReadMiss(p, folder, entity_name, key) :
         key \in {CacheKey(folder, entity_name)}})

---------------------------------------------------------------------------
(* _get_vars *)

Absent(d, k) == k \notin DOMAIN d        \* d.get(k) == None

(* Mutant: a port that an earlier layer put into data is kept *)
ResolvePortIfAbsent(data, entity) ==
    IF Absent(entity.vars, "ansible_port")
    THEN IF Absent(entity.vars, "ansible_connection") /\ Absent(data, "ansible_port")
         THEN Put(data, "ansible_port", DefaultPort)
         ELSE data
    ELSE Put(data, "ansible_port", entity.vars["ansible_port"])

(* Lines 148-152: the port the host's own vars resolve to. *)
ResolvePort(data, entity) ==
    IF Absent(entity.vars, "ansible_port")
    THEN IF Absent(entity.vars, "ansible_connection")
         THEN Put(data, "ansible_port", DefaultPort)
         ELSE data
    ELSE Put(data, "ansible_port", entity.vars["ansible_port"])

(* Mutant: only the first of the two winrm ports is recognised *)
ResolveConnectionOnePort(data, entity) ==
    IF Absent(entity.vars, "ansible_connection")
    THEN IF "ansible_port" \notin DOMAIN data
         THEN [exc |-> "KeyError", data |-> data]
         ELSE IF data["ansible_port"] = WinrmPortHttp
         THEN [exc |-> "none", data |-> Put(data, "ansible_connection", "winrm")]
         ELSE [exc |-> "none", data |-> Put(data, "ansible_connection", "ssh")]
    ELSE [exc |-> "none",
          data |-> Put(data, "ansible_connection", entity.vars["ansible_connection"])]

(* Lines 154-161; data["ansible_port"] is read when the host names no
   connection, and a dict without the key raises KeyError. *)
ResolveConnection(data, entity) ==
    IF Absent(entity.vars, "ansible_connection")
    THEN IF "ansible_port" \notin DOMAIN data
         THEN [exc |-> "KeyError", data |-> data]
         ELSE IF \/ data["ansible_port"] = WinrmPortHttp
                 \/ data["ansible_port"] = WinrmPortHttps
         THEN [exc |-> "none", data |-> Put(data, "ansible_connection", "winrm")]
         ELSE [exc |-> "none", data |-> Put(data, "ansible_connection", "ssh")]
    ELSE [exc |-> "none",
          data |-> Put(data, "ansible_connection", entity.vars["ansible_connection"])]

ConnectionDefaults(data, entity) ==
    The({IF d.exc # "none" THEN [exc |-> d.exc, data |-> d.data]
         ELSE ResolveConnection(d.data, entity) :
         d \in {[exc |-> "none", data |-> ResolvePort(data, entity)]}})

HostsFolder(data) == data["ansible_connection"] \o "/hosts"
DomainsFolder(data) == data["ansible_connection"] \o "/domains"

(* Line 177-178: the folder of the lookup of lookup_part. *)
LoopFolder(st, lookup_part, entity) ==
    IF lookup_part = entity.name THEN HostsFolder(st.data) ELSE st.folder

(* Lines 176-183: one round of the loop, for part *)
LoopBody(st, part, entity) ==
    The({The({[exc |-> r.exc,
               data |-> IF r.exc = "none" THEN combine_vars(st.data, r.value)
                        ELSE st.data,
               p |-> r.p,
               folder |-> folder,
               prev_part |-> <<".">> \o part \o st.prev_part] :
              r \in {_read_vault(st.p, folder, part \o st.prev_part)}}) :
         folder \in {LoopFolder(st, part \o st.prev_part, entity)}})

(* Lines 175-183, from the i-th of the reversed parts on. *)
RECURSIVE DomainLoop(_, _, _, _)
DomainLoop(st, parts, i, entity) ==
    IF i > Len(parts) \/ st.exc # "none" THEN st
    ELSE The({DomainLoop(st2, parts, i + 1, entity) :
              st2 \in {LoopBody(st, parts[i], entity)}})

(* Line 193 *)
FinalLookup(p, data, folder, entity) ==
    The({[exc |-> r.exc,
          data |-> IF r.exc = "none" THEN combine_vars(data, r.value) ELSE data,
          p |-> r.p] :
         r \in {_read_vault(p, folder, entity.name)}})

(* Lines 166-187 *)
NameLookups(p, data, entity, parts) ==
    IF Len(parts) = 1
    THEN FinalLookup(p, data, HostsFolder(data), entity)
    ELSE IF Len(parts) > 1
    THEN The({[exc |-> st.exc, data |-> st.data, p |-> st.p] :
              st \in {DomainLoop([exc |-> "none", data |-> data, p |-> p,
                                  folder |-> DomainsFolder(data),
                                  prev_part |-> <<>>],
                                 Reverse(parts), 1, entity)}})
    ELSE [exc |-> "AnsibleInternalError", data |-> data, p |-> p]

(* Lines 163-193 *)
HostLookups(p, data, entity) ==
    IF ~_is_valid_ip_address(entity.name)
    THEN The({NameLookups(p, data, entity, parts) :
              parts \in {Split(entity.name, ".")}})
    ELSE FinalLookup(p, data, HostsFolder(data), entity)

_get_vars(p, data, entity) ==
    IF entity.kind = "Group"
    THEN FinalLookup(p, data, "groups", entity)
    ELSE IF entity.kind = "Host"
    THEN The({IF d.exc # "none"
              THEN [exc |-> d.exc, data |-> d.data, p |-> p]
              ELSE HostLookups(p, d.data, entity) :
              d \in {ConnectionDefaults(data, entity)}})
    ELSE [exc |-> "AnsibleInternalError", data |-> data, p |-> p]

---------------------------------------------------------------------------
(* get_vars *)

(* Mutant: an entity whose resolution raises is skipped *)
RECURSIVE EntityLoopSkipping(_, _, _)
EntityLoopSkipping(st, entities, i) ==
    IF i > Len(entities) THEN st
    ELSE The({The({EntityLoopSkipping(st2, entities, i + 1) :
                   st2 \in {[exc |-> "none",
                             data |-> IF r.exc = "none" THEN r.data ELSE st.data,
                             p |-> r.p,
                             issued |-> Append(st.issued,
                                 Len(r.p.lookups) - Len(st.p.lookups))]}}) :
              r \in {_get_vars(st.p, st.data, entities[i])}})

(* Lines 203-204, from the i-th entity on; issued[j] is the number of
   _read_vault calls the j-th entity made that returned. *)
RECURSIVE EntityLoop(_, _, _)
EntityLoop(st, entities, i) ==
    IF i > Len(entities) \/ st.exc # "none" THEN st
    ELSE The({The({EntityLoop(st2, entities, i + 1) :
                   st2 \in {[exc |-> r.exc, data |-> r.data, p |-> r.p,
                             issued |-> Append(st.issued,
                                 Len(r.p.lookups) - Len(st.p.lookups))]}}) :
              r \in {_get_vars(st.p, st.data, entities[i])}})

StartOf(cache) == [cache |-> cache, lookups |-> <<>>, reads |-> <<>>]

(* Lines 202-206; an exception leaves get_vars without a return value. *)
get_vars(cache, entities) ==
    The({[exc |-> st.exc,
          result |-> IF st.exc = "none" THEN <<st.data>> ELSE <<>>,
          p |-> st.p,
          issued |-> st.issued] :
         st \in {EntityLoop([exc |-> "none", data |-> EmptyDict,
                             p |-> StartOf(cache), issued |-> <<>>],
                            entities, 1)}})

---------------------------------------------------------------------------
(* Counting the store reads that returned, per cache key *)

Count(rc, key) == IF key \in DOMAIN rc THEN rc[key] ELSE 0

RECURSIVE Counted(_, _)
Counted(rc, reads) ==
    IF reads = <<>> THEN rc
    ELSE Counted(Put(rc, Head(reads), Count(rc, Head(reads)) + 1), Tail(reads))

Capped(rc) == \A key \in DOMAIN rc : rc[key] <= MaxReadCount

---------------------------------------------------------------------------
(* Spec: one process, its get_vars calls one after the other *)

GroupAll == [kind |-> "Group", name |-> <<"a", "l", "l">>, vars |-> EmptyDict]
HostAB == [kind |-> "Host", name |-> <<"a", ".", "b">>, vars |-> EmptyDict]
Other == [kind |-> "Other", name |-> <<"o">>, vars |-> EmptyDict]

Entities == {GroupAll, HostAB, Other}

EntityLists == UNION {[1..n -> Entities] : n \in 0..MaxEntities}

(* What the vault may hold at each path the entities can reach *)
StoreChoices ==
    [p \in {"secret/ansible/groups/all"} |-> {[x |-> 1], [x |-> 2, y |-> 1]}]
    @@ [p \in {"secret/ansible/ssh/domains/b"} |->
            {[x |-> 1], [ansible_connection |-> "winrm"]}]
    @@ [p \in {"secret/ansible/ssh/hosts/a.b"} |-> {[x |-> 2, y |-> 1]}]
    @@ [p \in {"secret/ansible/winrm/hosts/a.b"} |-> {[x |-> 1]}]

DictsOf(choices) ==
    UNION {{s \in [ps -> UNION {choices[p] : p \in ps}] :
                \A p \in ps : s[p] \in choices[p]} : ps \in SUBSET DOMAIN choices}

NoOp == [op |-> "none"]

Init ==
    /\ store \in DictsOf(StoreChoices)
    /\ storeUp = TRUE
    /\ vault_cache = EmptyDict
    /\ readCount = EmptyDict
    /\ firstRead = EmptyDict
    /\ last = NoOp
    /\ thr = <<>>

GetVars(entities) ==
    \E r \in {get_vars(vault_cache, entities)} :
    \E counted \in {Counted(readCount, r.p.reads)} :
    \E repeat \in {last.op = "get_vars" /\ last.exc = "none"
                       /\ last.entities = entities} :
       /\ Capped(counted)
       /\ vault_cache' = r.p.cache
       /\ readCount' = counted
       /\ last' = [op |-> "get_vars", entities |-> entities, exc |-> r.exc,
                   result |-> r.result, lookups |-> r.p.lookups,
                   reads |-> r.p.reads, issued |-> r.issued,
                   repeat |-> repeat,
                   before |-> IF repeat THEN last.result ELSE <<>>]
       /\ UNCHANGED <<store, storeUp, firstRead, thr>>

(* get_vars(loader, path, entities) with a list *)
GetVarsList == \E entities \in EntityLists : GetVars(entities)

(* get_vars(loader, path, entity): lines 197-198 wrap it in a list *)
GetVarsOne == \E entity \in Entities : GetVars(<<entity>>)

(* The vault becomes unreachable, and reachable again *)
StoreFail == storeUp /\ storeUp' = FALSE
                     /\ UNCHANGED <<store, vault_cache, readCount, firstRead, last, thr>>

StoreRecover == ~storeUp /\ storeUp' = TRUE
                         /\ UNCHANGED <<store, vault_cache, readCount, firstRead, last, thr>>

Next == GetVarsList \/ GetVarsOne \/ StoreFail \/ StoreRecover

Spec == Init /\ [][Next]_vars


---------------------------------------------------------------------------
(* SpecCache: one thread calling _read_vault while the vault's content
   changes *)

CacheFolders == {"groups", "ssh/hosts"}
CacheNames == {<<"a">>}

CacheChoices ==
    [p \in {"secret/ansible/" \o CacheKey(f, n) :
                f \in CacheFolders, n \in CacheNames} |-> {[x |-> 1], [x |-> 2]}]

InitCache ==
    /\ store \in DictsOf(CacheChoices)
    /\ storeUp = TRUE
    /\ vault_cache = EmptyDict
    /\ readCount = EmptyDict
    /\ firstRead = EmptyDict
    /\ last = NoOp
    /\ thr = <<>>

ReadVault(folder, entity_name) ==
    \E key \in {CacheKey(folder, entity_name)} :
    \E r \in {_read_vault(StartOf(vault_cache), folder, entity_name)} :
    \E counted \in {Counted(readCount, r.p.reads)} :
       /\ Capped(counted)
       /\ vault_cache' = r.p.cache
       /\ readCount' = counted
       /\ firstRead' = IF r.p.reads # <<>> /\ key \notin DOMAIN firstRead
                       THEN Put(firstRead, key, r.value)
                       ELSE firstRead
       /\ last' = [op |-> "_read_vault", key |-> key, exc |-> r.exc,
                   value |-> r.value, read |-> r.p.reads # <<>>,
                   later |-> Count(readCount, key) > 0]
       /\ UNCHANGED <<store, storeUp, thr>>

ReadVaultCall ==
    \E folder \in CacheFolders, entity_name \in CacheNames :
        ReadVault(folder, entity_name)

(* Somebody else writes or deletes a secret *)
StoreWrite ==
    \E path \in DOMAIN CacheChoices :
    \E secret \in CacheChoices[path] :
        /\ store' = Put(store, path, secret)
        /\ store' # store
        /\ UNCHANGED <<storeUp, vault_cache, readCount, firstRead, last, thr>>

StoreDelete ==
    \E path \in DOMAIN store :
        /\ store' = [q \in DOMAIN store \ {path} |-> store[q]]
        /\ UNCHANGED <<storeUp, vault_cache, readCount, firstRead, last, thr>>

NextCache ==
    ReadVaultCall \/ StoreWrite \/ StoreDelete \/ StoreFail \/ StoreRecover

SpecCache == InitCache /\ [][NextCache]_vars

---------------------------------------------------------------------------
(* SpecLookup and SpecDefaults: one _get_vars call for a host, on an
   accumulator that earlier layers may have filled *)

Host(name, hostvars) == [kind |-> "Host", name |-> name, vars |-> hostvars]

RECURSIVE Join(_)
Join(labels) ==
    IF Len(labels) = 1 THEN labels[1]
    ELSE labels[1] \o <<".">> \o Join(Tail(labels))

Labels == {<<"a">>, <<"1">>, <<>>, <<":", ":", "1">>}

HostNames == {Join(ls) : ls \in UNION {[1..n -> Labels] : n \in 1..MaxLabels}}

Dots(name) == {i \in 1..Len(name) : name[i] = "."}

SuffixAfter(name, i) == SubSeq(name, i + 1, Len(name))

LookupVars == {EmptyDict, [ansible_connection |-> "winrm"]}

LookupData == {EmptyDict, [ansible_connection |-> "winrm", x |-> 2]}

DomainSecrets == {[x |-> 1], [ansible_connection |-> "winrm"],
                  [ansible_connection |-> "ssh"]}

(* The vault holds nothing, or one secret at one domain level of name *)
DomainStores(name) ==
    {EmptyDict} \cup
    {[p \in {"secret/ansible/" \o c \o "/domains/" \o Str(SuffixAfter(name, i))}
         |-> secret] :
        c \in {"ssh", "winrm"}, i \in Dots(name), secret \in DomainSecrets}

InitHost(entity, data) ==
    /\ storeUp = TRUE
    /\ vault_cache = EmptyDict
    /\ readCount = EmptyDict
    /\ firstRead = EmptyDict
    /\ last = [op |-> "call", entity |-> entity, data |-> data]
    /\ thr = <<>>

InitLookup ==
    \E name \in HostNames, hostvars \in LookupVars, data \in LookupData :
        /\ store \in DomainStores(name)
        /\ InitHost(Host(name, hostvars), data)

Ports(numbers) == {EmptyDict} \cup {[ansible_port |-> n] : n \in numbers}

Connections(types) == {EmptyDict} \cup {[ansible_connection |-> c] : c \in types}

DefaultVars ==
    {p @@ c : p \in Ports({22, 2222, 5985, 5986}),
              c \in Connections({"ssh", "winrm", "local"})}

DefaultData ==
    {p @@ c @@ x : p \in Ports({2222, 5985}),
                   c \in Connections({"winrm", "local"}),
                   x \in {EmptyDict, [x |-> 1]}}

InitDefaults ==
    \E hostvars \in DefaultVars, data \in DefaultData :
        /\ store \in {EmptyDict,
                      [p \in {"secret/ansible/ssh/hosts/h"} |-> [ansible_port |-> 1]]}
        /\ InitHost(Host(<<"h">>, hostvars), data)

(* _get_vars(data, entity); defaults is what lines 148-161 made of data *)
GetVarsOfHost ==
    /\ last.op = "call"
    /\ \E r \in {_get_vars(StartOf(vault_cache), last.data, last.entity)} :
       \E counted \in {Counted(readCount, r.p.reads)} :
          /\ Capped(counted)
          /\ vault_cache' = r.p.cache
          /\ readCount' = counted
          /\ last' = [op |-> "_get_vars", entity |-> last.entity,
                      before |-> last.data,
                      defaults |-> ConnectionDefaults(last.data, last.entity),
                      exc |-> r.exc, data |-> r.data,
                      lookups |-> r.p.lookups, reads |-> r.p.reads]
    /\ UNCHANGED <<store, storeUp, firstRead, thr>>

NextHost == GetVarsOfHost

SpecLookup == InitLookup /\ [][NextHost]_vars

SpecDefaults == InitDefaults /\ [][NextHost]_vars

---------------------------------------------------------------------------
(* SpecConc: two threads of one process in _read_vault, interleaved at the
   statements that touch vault_cache and the store *)

Threads == {"t1", "t2"}

Idle(calls) == [pc |-> "idle", key |-> "", data |-> EmptyDict, calls |-> calls]

InitConc ==
    /\ store \in DictsOf(CacheChoices)
    /\ storeUp = TRUE
    /\ vault_cache = EmptyDict
    /\ readCount = EmptyDict
    /\ firstRead = EmptyDict
    /\ last = NoOp
    /\ thr = [t \in Threads |-> Idle(0)]

(* Lines 118-122: the key, vault_cache.get(key), and the return of a hit *)
Lookup(t) ==
    \E folder \in CacheFolders, entity_name \in CacheNames :
    \E key \in {CacheKey(folder, entity_name)} :
        /\ thr[t].pc = "idle"
        /\ thr[t].calls < MaxThreadCalls
        /\ thr' = [thr EXCEPT ![t] =
                      IF CacheHit(vault_cache, key)
                      THEN Idle(thr[t].calls + 1)
                      ELSE [pc |-> "miss", key |-> key, data |-> EmptyDict,
                            calls |-> thr[t].calls + 1]]
        /\ UNCHANGED <<store, storeUp, vault_cache, readCount, firstRead, last>>

(* Lines 124-129: the store read; it raises when the vault is unreachable *)
Read(t) ==
    /\ thr[t].pc = "miss"
    /\ IF storeUp
       THEN \E counted \in {Counted(readCount, <<thr[t].key>>)} :
               /\ Capped(counted)
               /\ readCount' = counted
               /\ thr' = [thr EXCEPT ![t].pc = "read",
                              ![t].data = ResultData(
                                  v_client_read("secret/ansible/" \o thr[t].key))]
       ELSE /\ thr' = [thr EXCEPT ![t] = Idle(thr[t].calls)]
            /\ UNCHANGED readCount
    /\ UNCHANGED <<store, storeUp, vault_cache, firstRead, last>>

(* Lines 130-131: vault_cache[key] = data, and the return *)
Insert(t) ==
    /\ thr[t].pc = "read"
    /\ vault_cache' = Put(vault_cache, thr[t].key, thr[t].data)
    /\ firstRead' = IF thr[t].key \in DOMAIN firstRead THEN firstRead
                    ELSE Put(firstRead, thr[t].key, thr[t].data)
    /\ thr' = [thr EXCEPT ![t] = Idle(thr[t].calls)]
    /\ UNCHANGED <<store, storeUp, readCount, last>>

Step == \E t \in Threads : Lookup(t) \/ Read(t) \/ Insert(t)

NextConc == Step \/ StoreWrite \/ StoreDelete \/ StoreFail \/ StoreRecover

SpecConc == InitConc /\ [][NextConc]_vars

---------------------------------------------------------------------------
(* Claims checked under Spec *)

Max(S) == CHOOSE m \in S : \A n \in S : n <= m

ConnectionKeys == {"ansible_port", "ansible_connection"}

KeysOf(lookups) == UNION {DOMAIN lookups[i].value : i \in 1..Len(lookups)}

With(lookups, k) == {i \in 1..Len(lookups) : k \in DOMAIN lookups[i].value}

Returned == last.op = "get_vars" /\ last.exc = "none"

(* C2: in the mapping a get_vars call returns, every key other than
   ansible_port and ansible_connection that occurs in a record looked up
   during the call has the value of the last such record in issue order
   (so a key of an earlier record that no later record has is kept). *)
C2_OverlayPrecedence ==
    Returned =>
        \A k \in KeysOf(last.lookups) \ ConnectionKeys :
            /\ k \in DOMAIN last.result[1]
            /\ last.result[1][k] =
                   last.lookups[Max(With(last.lookups, k))].value[k]

(* A returned call where a later record overrode x and an earlier record's
   y, absent from every later record, was kept. *)
C2_Witness ==
    /\ Returned
    /\ \E i, j \in 1..Len(last.lookups) :
          /\ i < j
          /\ {"x", "y"} \subseteq DOMAIN last.lookups[i].value
          /\ "x" \in DOMAIN last.lookups[j].value
          /\ last.lookups[i].value["x"] # last.lookups[j].value["x"]
          /\ j = Max(With(last.lookups, "x"))
          /\ i = Max(With(last.lookups, "y"))
          /\ last.result[1]["x"] = last.lookups[j].value["x"]
          /\ last.result[1]["y"] = last.lookups[i].value["y"]

(* C5: a get_vars call that repeats the entity sequence of the call before
   it, which returned, returns an equal mapping and reads nothing from the
   store; every key it returns comes from a record this call looked up or
   from the connection defaults, the accumulator having started empty. *)
C5_Idempotent ==
    (last.op = "get_vars" /\ last.repeat) =>
        /\ last.exc = "none"
        /\ last.result = last.before
        /\ last.reads = <<>>
        /\ DOMAIN last.result[1] \subseteq
               KeysOf(last.lookups) \cup ConnectionKeys

(* A repeated call of two entities that looked records up, after the vault
   became unreachable. *)
C5_Witness ==
    /\ last.op = "get_vars" /\ last.repeat
    /\ Len(last.entities) = 2
    /\ Len(last.lookups) >= 3
    /\ last.result = last.before
    /\ ~storeUp

(* C6: a get_vars call returns a mapping only when every entity was
   processed and none was of an unrecognised kind; an entity of
   unrecognised kind issues no lookup and ends the call with the internal
   error, and a failed store read ends it without a mapping. *)
C6_NoPartialResult ==
    last.op = "get_vars" =>
        /\ (last.result # <<>> =>
               /\ last.exc = "none"
               /\ Len(last.issued) = Len(last.entities)
               /\ \A i \in 1..Len(last.entities) :
                      last.entities[i].kind \in {"Group", "Host"})
        /\ (last.exc # "none" => last.result = <<>>)
        /\ \A i \in 1..Len(last.issued) :
               last.entities[i].kind \notin {"Group", "Host"} =>
                   /\ last.issued[i] = 0
                   /\ i = Len(last.issued)
                   /\ last.exc = "AnsibleInternalError"
        /\ ((\E i \in 1..Len(last.entities) :
                last.entities[i].kind \notin {"Group", "Host"}) =>
               last.result = <<>>)

(* A call whose first entity was resolved from the store and whose second
   was of an unrecognised kind. *)
C6_Witness ==
    /\ last.op = "get_vars"
    /\ Len(last.entities) = 2
    /\ last.entities[2].kind = "Other"
    /\ last.issued = <<2, 0>>
    /\ last.reads # <<>>
    /\ last.exc = "AnsibleInternalError"
    /\ last.result = <<>>


---------------------------------------------------------------------------
(* Claims checked under SpecCache *)

(* C3: with one thread, the store is read at most once per cache key; a
   _read_vault call made after the store was read for its key returns the
   record that first read returned, the empty record included, and reads
   nothing from the store. *)
C3_ReadOncePerKey ==
    /\ \A key \in DOMAIN readCount : readCount[key] <= 1
    /\ (last.op = "_read_vault" /\ last.later) =>
           /\ last.exc = "none"
           /\ ~last.read
           /\ last.value = firstRead[last.key]

(* A later call that returned the cached empty record although the vault
   has a secret at the path by now. *)
C3_Witness ==
    /\ last.op = "_read_vault" /\ last.later
    /\ last.value = EmptyDict
    /\ vault_cache[last.key] = EmptyDict
    /\ ("secret/ansible/" \o last.key) \in DOMAIN store
    /\ readCount[last.key] = 1


---------------------------------------------------------------------------
(* Claims checked under SpecLookup *)

HostDone == last.op = "_get_vars" /\ last.entity.kind = "Host"

Resolved == last.defaults.data["ansible_connection"]

(* The k-th dot of name counted from its end *)
DotFromEnd(name, k) ==
    CHOOSE i \in Dots(name) : Cardinality({j \in Dots(name) : j >= i}) = k

(* The proper dot-suffixes of name, widest first, then name *)
SuffixOrder(name) ==
    [k \in 1..(Cardinality(Dots(name)) + 1) |->
        IF k <= Cardinality(Dots(name))
        THEN SuffixAfter(name, DotFromEnd(name, k))
        ELSE name]

LookupNames == [i \in 1..Len(last.lookups) |-> last.lookups[i].name]

LookupFolders == [i \in 1..Len(last.lookups) |-> last.lookups[i].folder]

OneHostLookup ==
    /\ LookupNames = <<last.entity.name>>
    /\ LookupFolders = <<Resolved \o "/hosts">>

(* ansible_connection in the accumulator when the full name is looked up *)
ConnectionAtHost ==
    LET n == Len(last.lookups)
        set == {i \in 1..(n - 1) : "ansible_connection" \in DOMAIN last.lookups[i].value}
    IN IF set = {} THEN Resolved
       ELSE last.lookups[Max(set)].value["ansible_connection"]

(* Lookup i of the host is under the domains folder of the resolved
   connection type, the last one under the hosts folder of the connection
   type the accumulator holds by then. *)
FoldersInOrder ==
    \A i \in 1..Len(last.lookups) :
        last.lookups[i].folder =
            IF i < Len(last.lookups) THEN Resolved \o "/domains"
            ELSE ConnectionAtHost \o "/hosts"

(* C1 as stated: a name without a dot gets the one lookup
   (connectionType/hosts, name); every name with a dot, whatever its
   labels, gets one lookup under connectionType/domains per proper
   dot-suffix, widest first, then one under connectionType/hosts for the
   full name. *)
C1_LookupSequence_AsStated ==
    HostDone =>
        IF Dots(last.entity.name) = {}
        THEN OneHostLookup
        ELSE LookupNames = SuffixOrder(last.entity.name) /\ FoldersInOrder

(* C1 amended: as stated for every name that is not an IPv4 or IPv6 address
   literal; a name that is one gets the one lookup (connectionType/hosts,
   name), dots or not. *)
C1_LookupSequence ==
    HostDone =>
        IF Dots(last.entity.name) = {} \/ _is_valid_ip_address(last.entity.name)
        THEN OneHostLookup
        ELSE LookupNames = SuffixOrder(last.entity.name) /\ FoldersInOrder

(* The host a.1.a: lookups of "a", "1.a" and "a.1.a" in this order. *)
C1_Witness ==
    /\ HostDone
    /\ last.entity.name = <<"a", ".", "1", ".", "a">>
    /\ LookupNames = << <<"a">>, <<"1", ".", "a">>, <<"a", ".", "1", ".", "a">> >>
    /\ LookupFolders = <<"ssh/domains", "ssh/domains", "ssh/hosts">>

(* C8: every lookup folder of one host is built from the connection type
   the defaults step resolved, whatever the records merged before hold. *)
C8_OneConnectionType ==
    HostDone =>
        \A i \in 1..Len(last.lookups) :
            last.lookups[i].folder \in {Resolved \o "/domains", Resolved \o "/hosts"}

(* C10: a host with an empty name fails with the internal error and no
   lookup is issued for it. *)
C10_EmptyNameFails ==
    (HostDone /\ last.entity.name = <<>>) =>
        /\ last.exc = "AnsibleInternalError"
        /\ last.lookups = <<>>

---------------------------------------------------------------------------
(* Claims checked under SpecDefaults *)

HostHas(k) == k \in DOMAIN last.entity.vars

Unwritten(k) ==
    /\ k \in DOMAIN last.defaults.data <=> k \in DOMAIN last.before
    /\ k \in DOMAIN last.before => last.defaults.data[k] = last.before[k]

PortOfHost ==
    IF HostHas("ansible_port") THEN last.entity.vars["ansible_port"] ELSE 22

(* C4: the defaults step writes ansible_port = the host's port when it has
   one, 22 when it has neither port nor connection, and does not write it
   when it has a connection and no port; it writes ansible_connection = the
   host's connection when it has one, else "winrm" for port 5985 or 5986
   and "ssh" otherwise; it never fails on an unset port. *)
C4_ConnectionDefaults ==
    HostDone =>
        /\ last.defaults.exc = "none" /\ last.exc # "KeyError"
        /\ (HostHas("ansible_port") =>
               last.defaults.data["ansible_port"] = last.entity.vars["ansible_port"])
        /\ (~HostHas("ansible_port") /\ ~HostHas("ansible_connection") =>
               last.defaults.data["ansible_port"] = 22)
        /\ (~HostHas("ansible_port") /\ HostHas("ansible_connection") =>
               Unwritten("ansible_port"))
        /\ (HostHas("ansible_connection") =>
               Resolved = last.entity.vars["ansible_connection"])
        /\ (~HostHas("ansible_connection") =>
               Resolved = IF PortOfHost \in {5985, 5986} THEN "winrm" ELSE "ssh")

(* A host with port 5986 and no connection, on an accumulator that held
   another port and connection: 5986 and "winrm" are written. *)
C4_Witness ==
    /\ HostDone
    /\ last.entity.vars = [ansible_port |-> 5986]
    /\ last.before = [ansible_port |-> 2222, ansible_connection |-> "local"]
    /\ last.defaults.data = [ansible_port |-> 5986, ansible_connection |-> "winrm"]

(* C9 as stated: a port or connection that an earlier layer put into the
   accumulator is left as it is by the defaults step when the host's own
   vars lack that field. *)
C9_DefaultsOnlyWhenAbsent_AsStated ==
    HostDone =>
        \A k \in ConnectionKeys :
            (k \in DOMAIN last.before /\ ~HostHas(k)) => Unwritten(k)

(* C9 amended: the defaults step leaves every other key of the accumulator
   as it is; it leaves ansible_port as it is only when the host has a
   connection and no port, and otherwise overwrites it (with 22 when the
   host has neither); it always overwrites ansible_connection with the
   host's own or the one derived from the port. *)
C9_DefaultsFrame ==
    HostDone =>
        /\ \A k \in (DOMAIN last.before \cup DOMAIN last.defaults.data)
                        \ ConnectionKeys : Unwritten(k)
        /\ (~HostHas("ansible_port") /\ HostHas("ansible_connection") =>
               Unwritten("ansible_port"))
        /\ (~HostHas("ansible_port") /\ ~HostHas("ansible_connection") =>
               last.defaults.data["ansible_port"] = 22)
        /\ (~HostHas("ansible_connection") =>
               Resolved \in {"ssh", "winrm"})
        /\ DOMAIN last.defaults.data =
               DOMAIN last.before \cup {"ansible_connection"}
                   \cup (IF HostHas("ansible_port") \/ ~HostHas("ansible_connection")
                         THEN {"ansible_port"} ELSE {})

(* A host without port and connection, on an accumulator holding port 2222
   and connection "local" from an earlier layer: both are overwritten. *)
C9_Witness ==
    /\ HostDone
    /\ last.entity.vars = EmptyDict
    /\ last.before = [ansible_port |-> 2222, ansible_connection |-> "local", x |-> 1]
    /\ last.defaults.data = [ansible_port |-> 22, ansible_connection |-> "ssh", x |-> 1]


---------------------------------------------------------------------------
(* Claims checked under SpecConc *)

(* C7: with two threads in _read_vault on one cache, the store is read at
   most once per cache key, and the record first put into the cache for a
   key is never replaced. *)
C7_ReadOncePerKeyConcurrently ==
    /\ \A key \in DOMAIN readCount : readCount[key] <= 1
    /\ \A key \in DOMAIN vault_cache : vault_cache[key] = firstRead[key]

=============================================================================
